---- MODULE Spec2Model ----
(***************************************************************************)
(* Model of the SEO Writer page (src/app.py): the helpers clean_domain,    *)
(* char_count, enforce_length, the logger log_to_sheet, the completion     *)
(* client (get_openai_client / call_openai) and the Run block that drives  *)
(* one generation from the button press to the status message.             *)
(*                                                                         *)
(* Strings are sequences of one-character strings.  The completion         *)
(* endpoint, the secrets store and the spreadsheet service are external:   *)
(* what they return is a nondeterministic choice made when the code reads  *)
(* them.  The prompts are built from the form fields and only travel to    *)
(* the endpoint, whose answer is unconstrained, so their text is not kept. *)
(*                                                                         *)
(* The number inputs of the sidebar accept 100..5000; the model scales     *)
(* that range down to InputLo..InputHi (the code relies only on the lower  *)
(* limit being positive) so that texts longer and shorter than the window  *)
(* fit in a few characters.                                                *)
(***************************************************************************)
EXTENDS Integers, Sequences, FiniteSets, TLC

\* ------------------------------------------------------------------ bounds
InputLo == 1
InputHi == 3
MaxResp == 3
MaxText == 4
MaxParts == 3
MaxSheetRows == 1

\* --------------------------------------------------------------- alphabets
SeqsUpTo(S, n) == UNION {[1..k -> S] : k \in 0..n}

Whitespace == {" "}
Terminators == {".", "!", "?"}

\* characters a completion can be made of (letter, terminator, blank)
RespChars == {"a", ".", " "}
\* characters of the texts handed to enforce_length on its own
TextChars == {"a", ".", "!", "?"}

\* ------------------------------------------------------------ str helpers
RECURSIVE lstrip(_)
lstrip(s) ==
    IF s = <<>> THEN s
    ELSE IF Head(s) \in Whitespace THEN lstrip(Tail(s)) ELSE s

RECURSIVE rstrip(_)
rstrip(s) ==
    IF s = <<>> THEN s
    ELSE IF s[Len(s)] \in Whitespace THEN rstrip(SubSeq(s, 1, Len(s) - 1)) ELSE s

\* str.strip()
strip(s) == rstrip(lstrip(s))

\* s.startswith(p)
StartsWith(s, p) == Len(s) >= Len(p) /\ SubSeq(s, 1, Len(p)) = p

\* s[n:]
Drop(s, n) == SubSeq(s, n + 1, Len(s))

\* str.replace(old, ""): left-to-right, non-overlapping, every occurrence
RECURSIVE replace(_, _)
replace(s, old) ==
    IF s = <<>> THEN s
    ELSE IF StartsWith(s, old) THEN replace(Drop(s, Len(old)), old)
    ELSE <<Head(s)>> \o replace(Tail(s), old)

\* -------------------------------------------------------------- urlparse
SchemeChars == {"h", "w", "a", "."}
Alpha == {"h", "w", "a"}
NetlocEnd == {"/", "?", "#"}

\* url.find(c): 1-based index of the first c, 0 when there is none
RECURSIVE find(_, _, _)
find(s, c, i) ==
    IF i > Len(s) THEN 0
    ELSE IF s[i] \in c THEN i ELSE find(s, c, i + 1)

\* urlsplit: drop "<scheme>:" when the part before the first ':' is a scheme
AfterScheme(u) ==
    LET i == find(u, {":"}, 1)
    IN IF i > 1 /\ u[1] \in Alpha /\ \A k \in 1..(i - 1) : u[k] \in SchemeChars
       THEN Drop(u, i)
       ELSE u

\* urlparse(url).netloc: what follows "//" up to the first '/', '?' or '#'
netloc(u) ==
    LET r == AfterScheme(u)
    IN IF StartsWith(r, <<"/", "/">>)
       THEN LET rest == Drop(r, 2)
                e == find(rest, NetlocEnd, 1)
            IN IF e = 0 THEN rest ELSE SubSeq(rest, 1, e - 1)
       ELSE <<>>

Www == <<"w", "w", "w", ".">>

clean_domain(u) ==
    LET n == netloc(u)
    IN IF n # <<>> THEN replace(n, Www) ELSE <<>>

\* ------------------------------------------------------------ char_count
char_count(text) == Len(text)

\* -------------------------------------------------------- enforce_length
\* index of the last terminator of s, 0 when there is none
RECURSIVE LastTerminator(_)
LastTerminator(s) ==
    IF s = <<>> THEN 0
    ELSE IF s[Len(s)] \in Terminators THEN Len(s)
    ELSE LastTerminator(SubSeq(s, 1, Len(s) - 1))

\* re.search(r"(.+[\.!?])[^\.!?]*$", trimmed, re.S): end of group 1, 0 when
\* there is no match.  ".+" needs one character before the terminator.
SoftCutFirst(trimmed) ==
    LET f == find(trimmed, Terminators, 2)
    IN f

SoftCut(trimmed) ==
    LET j == LastTerminator(trimmed)
    IN IF j >= 2 THEN j ELSE 0

enforce_length_nocut(text, min_c, max_c) == text

enforce_length(text, min_c, max_c) ==
    IF Len(text) <= max_c THEN text
    ELSE LET trimmed == SubSeq(text, 1, max_c)
             m == SoftCut(trimmed)
         IN IF m # 0 THEN SubSeq(trimmed, 1, m) ELSE trimmed


\* ------------------------------------------------------------------ state
VARIABLES
    pc,           \* position of the Run block
    keyword,      \* st.text_input "Keyword principale"
    url,          \* st.text_input "URL di riferimento"
    target_min,   \* st.number_input "Min caratteri"
    target_max,   \* st.number_input "Max caratteri"
    domain,       \* clean_domain(url), used by the user prompt
    client,       \* "unset", "none" (get_openai_client returned None), "ok"
    content,      \* the text being produced
    cc,           \* its character count as last computed
    first,        \* what the first completion call returned
    fix,          \* what the micro-fix call returned
    calls,        \* completion calls issued
    fixCalls,     \* of which micro-fix calls
    keyLookups,   \* reads of OPENAI_API_KEY
    errors,       \* st.error messages
    warned,       \* the st.warning of the keyword validation was shown
    logCalls,     \* calls of log_to_sheet
    logChars,     \* the chars argument of the last one
    logConf,      \* what log_to_sheet found in Secrets
    logOutcome,   \* how the last log_to_sheet ended
    contacted,    \* log_to_sheet went to the spreadsheet service
    notices,      \* st.info "Log non registrato" messages
    sheetRows,    \* rows of the worksheet, header included
    appended,     \* rows appended by this run
    status,       \* "none", "success", "warning"
    shownCount,   \* the count stated in the status message
    shownText,    \* the text rendered by st.markdown(content)
    rendered,     \* st.markdown(content) ran
    el,           \* enforce_length applied on its own
    cd            \* clean_domain applied on its own

formVars == <<keyword, url, target_min, target_max>>
textVars == <<content, cc, first, fix>>
callVars == <<calls, fixCalls>>
logVars == <<logCalls, logChars, logConf, logOutcome, contacted, notices, sheetRows, appended>>
outVars == <<status, shownCount, shownText, rendered>>
fnVars == <<el, cd>>
vars == <<pc, formVars, domain, client, textVars, callVars, keyLookups, errors, warned, logVars, outVars, fnVars>>

\* ----------------------------------------------------------------- inputs
Keywords == SeqsUpTo({" ", "a"}, 2)
Urls == {<<>>, <<"/", "/", "w", "w", "w", ".", "a">>}
Window == InputLo..InputHi

\* what the endpoint does with one request
Responses ==
    {[kind |-> "error", text |-> <<>>], [kind |-> "null", text |-> <<>>]}
    \cup {[kind |-> "text", text |-> t] : t \in SeqsUpTo(RespChars, MaxResp)}

ApiKeys == {<<>>, <<"k">>}

LogFailures == {"auth", "open", "worksheet", "rows", "append"}

NoConf == [sheet_id |-> "unread", sa_info |-> "unread"]
ElIdle == [text |-> <<>>, min_c |-> 0, max_c |-> 0, out |-> <<>>, again |-> <<>>, step |-> 0]
CdIdle == [url |-> <<>>, out |-> <<>>, again |-> <<>>, step |-> 0]

RunInit ==
    /\ pc = "Form"
    /\ keyword = <<>> /\ url = <<>>
    /\ target_min = InputLo /\ target_max = InputLo
    /\ domain = <<>>
    /\ client = "unset"
    /\ content = <<>> /\ cc = 0 /\ first = <<>> /\ fix = <<>>
    /\ calls = 0 /\ fixCalls = 0
    /\ keyLookups = 0 /\ errors = 0 /\ warned = FALSE
    /\ logCalls = 0 /\ logChars = 0 /\ logConf = NoConf /\ logOutcome = "none"
    /\ contacted = FALSE /\ notices = 0
    /\ appended = <<>>
    /\ status = "none" /\ shownCount = 0 /\ shownText = <<>> /\ rendered = FALSE

Init ==
    /\ RunInit
    /\ sheetRows \in 0..MaxSheetRows
    /\ el = ElIdle
    /\ cd = CdIdle

\* -------------------------------------------------------------- Run block
\* the user fills the form and presses the button (start is True)
Start ==
    /\ pc = "Form"
    /\ keyword' \in Keywords
    /\ url' \in Urls
    /\ target_min' \in Window
    /\ target_max' \in Window
    /\ pc' = "Validate"
    /\ UNCHANGED <<domain, client, textVars, callVars, keyLookups, errors, warned, logVars, outVars, fnVars>>

\* not keyword.strip()
KeywordBlankRaw(kw) == kw = <<>>

KeywordBlank(kw) == strip(kw) = <<>>

Validate ==
    /\ pc = "Validate"
    /\ IF KeywordBlank(keyword)
       THEN /\ warned' = TRUE
            /\ pc' = "Stopped"
            /\ UNCHANGED domain
       ELSE /\ domain' = clean_domain(url)
            /\ pc' = "Client"
            /\ UNCHANGED warned
    /\ UNCHANGED <<formVars, client, textVars, callVars, keyLookups, errors, logVars, outVars, fnVars>>

\* st.secrets.get("OPENAI_API_KEY", "") or os.getenv("OPENAI_API_KEY", "")
ApiKey(secret, env) == IF secret # <<>> THEN secret ELSE env

\* truthiness of a str
Always(s) == TRUE

Truthy(s) == s # <<>>

GetClient ==
    /\ pc = "Client"
    /\ \E secret \in ApiKeys, env \in ApiKeys, importOk \in BOOLEAN :
         LET key == ApiKey(secret, env)
         IN /\ keyLookups' = keyLookups + 1
            /\ IF ~Truthy(key) \/ ~importOk
               THEN /\ errors' = errors + 1
                    /\ client' = "none"
                    /\ pc' = "Stopped"
               ELSE /\ client' = "ok"
                    /\ pc' = "FirstCall"
                    /\ UNCHANGED errors
    /\ UNCHANGED <<formVars, domain, textVars, callVars, warned, logVars, outVars, fnVars>>

\* call_openai: the stripped content of the first choice, "" on any error
call_openai(resp) ==
    IF resp.kind = "text" THEN strip(resp.text) ELSE <<>>

FirstCall ==
    /\ pc = "FirstCall"
    /\ \E resp \in Responses :
         /\ calls' = calls + 1
         /\ errors' = IF resp.kind = "error" THEN errors + 1 ELSE errors
         /\ content' = call_openai(resp)
         /\ first' = content'
         /\ pc' = IF ~Truthy(content') THEN "Stopped" ELSE "CheckLength"
    /\ UNCHANGED <<formVars, domain, client, cc, fix, fixCalls, keyLookups, warned, logVars, outVars, fnVars>>

\* cc < target_min or cc > target_max, before the micro-fix
NeedsFixOver(c, mn, mx) == c > mx

NeedsFix(c, mn, mx) == c < mn \/ c > mx

CheckLength ==
    /\ pc = "CheckLength"
    /\ cc' = char_count(content)
    /\ pc' = IF NeedsFix(cc', target_min, target_max) THEN "MicroFix" ELSE "Enforce"
    /\ UNCHANGED <<formVars, domain, client, content, first, fix, callVars, keyLookups, errors, warned, logVars, outVars, fnVars>>

MicroFixHalting ==
    /\ pc = "MicroFix"
    /\ \E resp \in Responses :
         /\ calls' = calls + 1
         /\ fixCalls' = fixCalls + 1
         /\ errors' = IF resp.kind = "error" THEN errors + 1 ELSE errors
         /\ content' = call_openai(resp)
         /\ fix' = content'
         /\ cc' = char_count(content')
         /\ pc' = IF ~Truthy(content') THEN "Stopped" ELSE "Enforce"
    /\ UNCHANGED <<formVars, domain, client, first, keyLookups, warned, logVars, outVars, fnVars>>

MicroFix ==
    /\ pc = "MicroFix"
    /\ \E resp \in Responses :
         /\ calls' = calls + 1
         /\ fixCalls' = fixCalls + 1
         /\ errors' = IF resp.kind = "error" THEN errors + 1 ELSE errors
         /\ content' = call_openai(resp)
         /\ fix' = content'
         /\ cc' = char_count(content')
    /\ pc' = "Enforce"
    /\ UNCHANGED <<formVars, domain, client, first, keyLookups, warned, logVars, outVars, fnVars>>

Enforce ==
    /\ pc = "Enforce"
    /\ content' = enforce_length(strip(content), target_min, target_max)
    /\ cc' = char_count(content')
    /\ pc' = "Log"
    /\ UNCHANGED <<formVars, domain, client, first, fix, callVars, keyLookups, errors, warned, logVars, outVars, fnVars>>

\* ------------------------------------------------------------ log_to_sheet
\* sheetId, saInfo: LOG_SHEET_ID / gcp_service_account are set in Secrets;
\* remote: "ok" or the step of the spreadsheet service that raises.
\* The result tells how the call ended, whether st.info was shown, whether
\* the service was reached and the rows handed to append_row.
log_to_sheet(sheetId, saInfo, remote, n, kw, u, chars) ==
    IF ~sheetId
    THEN [outcome |-> "keyerror", notice |-> 1, contacted |-> FALSE, rows |-> <<>>]
    ELSE IF ~saInfo
    THEN [outcome |-> "noop", notice |-> 0, contacted |-> FALSE, rows |-> <<>>]
    ELSE IF remote \in LogFailures
    THEN [outcome |-> remote, notice |-> 1, contacted |-> TRUE, rows |-> <<>>]
    ELSE [outcome |-> "ok", notice |-> 0, contacted |-> TRUE,
          rows |-> <<[n |-> n, keyword |-> kw, url |-> u, chars |-> chars]>>]

\* the Run block goes on to the status message whatever log_to_sheet did
AfterLogRaising(r) == IF r.notice = 1 THEN "Stopped" ELSE "Present"

AfterLog(r) == "Present"

Log ==
    /\ pc = "Log"
    /\ \E sheetId \in BOOLEAN, saInfo \in BOOLEAN, remote \in LogFailures \cup {"ok"} :
         LET r == log_to_sheet(sheetId, saInfo, remote, sheetRows, keyword, url, cc)
         IN /\ logCalls' = logCalls + 1
            /\ logChars' = cc
            /\ logConf' = [sheet_id |-> IF sheetId THEN "present" ELSE "absent",
                           sa_info |-> IF saInfo THEN "present" ELSE "absent"]
            /\ logOutcome' = r.outcome
            /\ contacted' = r.contacted
            /\ notices' = notices + r.notice
            /\ appended' = appended \o r.rows
            /\ sheetRows' = sheetRows + Len(r.rows)
            /\ pc' = AfterLog(r)
    /\ UNCHANGED <<formVars, domain, client, textVars, callVars, keyLookups, errors, warned, outVars, fnVars>>

\* cc < target_min or cc > target_max, for the status message
OutOfRangeOver(c, mn, mx) == c > mx

OutOfRange(c, mn, mx) == c < mn \/ c > mx

Present ==
    /\ pc = "Present"
    /\ status' = IF OutOfRange(cc, target_min, target_max) THEN "warning" ELSE "success"
    /\ shownCount' = cc
    /\ shownText' = content
    /\ rendered' = TRUE
    /\ pc' = "Done"
    /\ UNCHANGED <<formVars, domain, client, textVars, callVars, keyLookups, errors, warned, logVars, fnVars>>

Next ==
    \/ Start
    \/ Validate
    \/ GetClient
    \/ FirstCall
    \/ CheckLength
    \/ MicroFix
    \/ Enforce
    \/ Log
    \/ Present

Spec == Init /\ [][Next]_vars

\* --------------------------------------------- enforce_length on its own
runVars == <<pc, formVars, domain, client, textVars, callVars, keyLookups, errors, warned, logVars, outVars>>

InitEnforce ==
    /\ RunInit
    /\ sheetRows = 0
    /\ cd = CdIdle
    /\ \E t \in SeqsUpTo(TextChars, MaxText), mn \in Window, mx \in Window :
         el = [ElIdle EXCEPT !.text = t, !.min_c = mn, !.max_c = mx]

ApplyEnforce ==
    /\ el.step = 0
    /\ el' = [el EXCEPT !.out = enforce_length(el.text, el.min_c, el.max_c), !.step = 1]
    /\ UNCHANGED <<runVars, cd>>

ReapplyEnforce ==
    /\ el.step = 1
    /\ el' = [el EXCEPT !.again = enforce_length(el.out, el.min_c, el.max_c), !.step = 2]
    /\ UNCHANGED <<runVars, cd>>

NextEnforce ==
    \/ ApplyEnforce
    \/ ReapplyEnforce

SpecEnforce == InitEnforce /\ [][NextEnforce]_vars

\* ----------------------------------------------- clean_domain on its own
HostParts == {Www, <<"a">>, <<"w">>, <<".">>}
Schemes == {<<>>, <<"h", ":">>}
Slashes == {<<>>, <<"/", "/">>}
Paths == {<<>>, <<"/", "a">>}

RECURSIVE Flatten(_)
Flatten(ps) == IF ps = <<>> THEN <<>> ELSE Head(ps) \o Flatten(Tail(ps))

Hosts == {Flatten(ps) : ps \in SeqsUpTo(HostParts, MaxParts)}

InitDomain ==
    /\ RunInit
    /\ sheetRows = 0
    /\ el = ElIdle
    /\ \E sc \in Schemes, sl \in Slashes, h \in Hosts, p \in Paths :
         cd = [CdIdle EXCEPT !.url = sc \o sl \o h \o p]

ApplyDomain ==
    /\ cd.step = 0
    /\ cd' = [cd EXCEPT !.out = clean_domain(cd.url), !.step = 1]
    /\ UNCHANGED <<runVars, el>>

ReapplyDomain ==
    /\ cd.step = 1
    /\ cd' = [cd EXCEPT !.again = clean_domain(cd.out), !.step = 2]
    /\ UNCHANGED <<runVars, el>>

NextDomain ==
    \/ ApplyDomain
    \/ ReapplyDomain

SpecDomain == InitDomain /\ [][NextDomain]_vars

\* ================================================================= claims
PastCheck == {"Enforce", "Log", "Present", "Done"}
InWindow(n) == target_min <= n /\ n <= target_max
IsBlank(s) == \A i \in 1..Len(s) : s[i] = " "

\* C1: when the first completion call returned non-empty text, exactly one
\* micro-fix call is issued if its length is below target_min or above
\* target_max and none if it lies inside the window; a run never issues
\* more than two completion calls.
C1_OneFixIffOutside ==
    /\ calls <= 2
    /\ fixCalls <= 1
    /\ (calls >= 1 /\ first # <<>>) =>
          /\ pc \in PastCheck \cup {"CheckLength", "MicroFix"}
          /\ pc = "MicroFix" => ~InWindow(Len(first)) /\ fixCalls = 0
          /\ pc \in PastCheck =>
                /\ fixCalls = (IF InWindow(Len(first)) THEN 0 ELSE 1)
                /\ calls = 1 + fixCalls

C1_Witness ==
    /\ pc = "Done"
    /\ Len(first) < target_min
    /\ fixCalls = 1
    /\ Len(fix) > target_max

\* C2: a press of the button with an empty or whitespace-only keyword ends
\* in the validation warning with no completion call, no read of the API
\* key, no call of the logger, no appended row and nothing presented,
\* whatever the other inputs are.
C2_BlankKeywordStops ==
    (pc \notin {"Form", "Validate"} /\ IsBlank(keyword)) =>
        /\ pc = "Stopped"
        /\ warned
        /\ calls = 0
        /\ keyLookups = 0
        /\ client = "unset"
        /\ logCalls = 0 /\ appended = <<>> /\ ~contacted /\ notices = 0
        /\ status = "none" /\ ~rendered

C2_Witness ==
    /\ pc = "Stopped"
    /\ warned
    /\ keyword = <<" ", " ">>
    /\ url # <<>>

\* C3: without a usable client (no API key) the run stops before any
\* completion call; when the first completion call returns an empty result
\* (transport error included) the run stops without a micro-fix call.  In
\* both cases the logger is not called, no row is appended and no
\* success/warning status is presented.
C3_FatalStops ==
    /\ client = "none" =>
          /\ pc = "Stopped" /\ calls = 0 /\ errors = 1
          /\ logCalls = 0 /\ appended = <<>> /\ status = "none" /\ ~rendered
    /\ (calls >= 1 /\ first = <<>>) =>
          /\ pc = "Stopped" /\ calls = 1 /\ fixCalls = 0
          /\ logCalls = 0 /\ appended = <<>> /\ status = "none" /\ ~rendered

C3_Witness ==
    /\ pc = "Stopped"
    /\ client = "ok"
    /\ calls = 1
    /\ first = <<>>
    /\ errors = 1

\* C4: the logging step leaves the text, the count and the window alone and
\* always hands over to the status message, whether it appends, no-ops or
\* fails at any point; a failure only adds one informational notice; the
\* status message and the rendered text are then derived from that text and
\* count alone.
C4_LogFrame ==
    [][/\ pc = "Log" =>
            /\ pc' = "Present"
            /\ content' = content /\ cc' = cc
            /\ target_min' = target_min /\ target_max' = target_max
            /\ errors' = errors /\ warned' = warned
            /\ status' = status /\ rendered' = rendered
            /\ notices' = notices + (IF logOutcome' \in LogFailures \cup {"keyerror"} THEN 1 ELSE 0)
       /\ pc = "Present" =>
            /\ pc' = "Done"
            /\ shownText' = content
            /\ shownCount' = cc
            /\ status' = (IF InWindow(cc) THEN "success" ELSE "warning")
            /\ rendered']_vars

C4_Witness ==
    /\ pc = "Done"
    /\ logOutcome = "append"
    /\ notices = 1
    /\ status = "success"
    /\ shownText = <<"a", ".">>

\* the claim's view of enforce_length: the prefix up to the last terminator
\* found among the first max_c characters
TermAt(t, lo, hi) == {i \in lo..hi : t[i] \in Terminators}
Largest(S) == CHOOSE i \in S : \A j \in S : j <= i
CutAtLast(t, lo, hi) == SubSeq(t, 1, Largest(TermAt(t, lo, hi)))
SoftResult(lo) ==
    /\ el.out = CutAtLast(el.text, lo, el.max_c)
    /\ el.out[Len(el.out)] \in Terminators
    /\ Len(el.out) <= el.max_c
    /\ el.again = el.out

\* C5 as stated: for every text longer than max_c with a terminator among
\* its first max_c characters, the first one included, enforce_length
\* returns the prefix up to and including the last such terminator, which
\* ends in it, is at most max_c long and is left alone by a second call.
C5_Original ==
    (el.step = 2 /\ Len(el.text) > el.max_c /\ TermAt(el.text, 1, el.max_c) # {}) =>
        SoftResult(1)

\* C5 amended: the same for every text longer than max_c with a terminator
\* among its first max_c characters that is not the very first character.
C5_SoftCut ==
    (el.step = 2 /\ Len(el.text) > el.max_c /\ TermAt(el.text, 2, el.max_c) # {}) =>
        SoftResult(2)

C5_Witness ==
    /\ el.step = 2
    /\ el.text = <<"a", "?", "!", "a">>
    /\ el.max_c = 3
    /\ el.out = <<"a", "?", "!">>

\* exactly one leading "www." taken off
StripWww(h) == IF StartsWith(h, Www) THEN Drop(h, Len(Www)) ELSE h

\* C6: for every URL with a host, clean_domain returns the host with exactly
\* one leading "www." removed, no other "www." altered, and clean_domain of
\* that result is the result itself.
C6_Original ==
    (cd.step = 2 /\ netloc(cd.url) # <<>>) =>
        /\ cd.out = StripWww(netloc(cd.url))
        /\ cd.again = cd.out

\* C7: when LOG_SHEET_ID or gcp_service_account is missing, log_to_sheet
\* appends no row, does not reach the spreadsheet service and shows no
\* notice.
C7_Original ==
    (logCalls >= 1 /\ (logConf.sheet_id = "absent" \/ logConf.sa_info = "absent")) =>
        /\ appended = <<>>
        /\ ~contacted
        /\ notices = 0

\* C8: when the first call returned non-empty text outside the window and
\* the micro-fix call returns an empty result, the run is not stopped: the
\* empty text is enforced, the logger is called once with 0 characters and
\* the status message is the warning with count 0; the first text is not
\* put back.
C8_EmptyFixGoesOn ==
    (fixCalls = 1 /\ fix = <<>>) =>
        /\ first # <<>> /\ ~InWindow(Len(first))
        /\ pc \in PastCheck
        /\ content = <<>> /\ cc = 0
        /\ pc \in {"Present", "Done"} => logCalls = 1 /\ logChars = 0
        /\ pc = "Done" =>
              /\ status = "warning" /\ shownCount = 0
              /\ shownText = <<>> /\ shownText # first

C8_Witness ==
    /\ pc = "Done"
    /\ fixCalls = 1
    /\ fix = <<>>
    /\ errors = 1
    /\ status = "warning"
    /\ logOutcome = "ok"

\* C9: at the end of a run the count given to the logger and the count in
\* the status message are the same value, the length of the rendered final
\* text; success is reported exactly when that count is inside the window;
\* the logger is called once, after the enforcement and before the status
\* message.
C9_OneCount ==
    /\ logCalls >= 1 =>
          /\ logCalls = 1
          /\ pc \in {"Present", "Done"}
          /\ logChars = Len(content)
          /\ content = enforce_length(strip(IF fixCalls = 1 THEN fix ELSE first), target_min, target_max)
    /\ pc \in {"Form", "Validate", "Client", "FirstCall", "CheckLength", "MicroFix", "Enforce", "Log"} =>
          logCalls = 0
    /\ status # "none" => pc = "Done"
    /\ pc = "Done" =>
          /\ logCalls = 1
          /\ shownText = content
          /\ shownCount = Len(shownText)
          /\ logChars = shownCount
          /\ status = "success" <=> InWindow(shownCount)
          /\ status \in {"success", "warning"}

C9_Witness ==
    /\ pc = "Done"
    /\ status = "success"
    /\ Len(first) > target_max
    /\ fixCalls = 1
    /\ Len(fix) > target_max
    /\ logChars = target_max
    /\ appended # <<>>

\* C10: at the end of a run the final text is never longer than target_max,
\* so the warning means it is shorter than target_min, and with
\* target_min > target_max every run that gets there ends in the warning.
C10_NeverOver ==
    /\ pc \in {"Log", "Present"} => Len(content) <= target_max
    /\ pc = "Done" =>
          /\ Len(shownText) <= target_max
          /\ status = "warning" => Len(shownText) < target_min
          /\ target_min > target_max => status = "warning"

C10_Witness ==
    /\ pc = "Done"
    /\ target_min > target_max
    /\ status = "warning"
    /\ Len(fix) > target_max
    /\ Len(shownText) = target_max
====
